---- MODULE Spec2Model ----
(***************************************************************************)
(* NRTMOperation (irrd/mirroring/nrtm_operation.py): one ADD/DEL of an     *)
(* NRTM stream and the decision chain of NRTMOperation.save, which parses  *)
(* the object text, filters on object class, rejects objects with parser   *)
(* errors or with a foreign source, and otherwise upserts or deletes the   *)
(* object in the database, stamped with the operation's serial.            *)
(*                                                                         *)
(* The RPSL parser (irrd.rpsl) and the DatabaseHandler (irrd.storage) are  *)
(* collaborators whose code is outside this file; they are modelled at     *)
(* their interface.                                                        *)
(***************************************************************************)
EXTENDS Integers, Sequences, FiniteSets, TLC

VARIABLES self, database_handler, result

vars == <<self, database_handler, result>>

(***************************************************************************)
(* Bounds and value domains                                                *)
(***************************************************************************)
\* Serials of a stream are 1..MaxSerial.
MaxSerial == 2
\* The parser reports 0..MaxErrors error messages for one object.
MaxErrors == 1

\* Python's None, for the optional strings.
None == "None"

\* Sources of NRTM streams: upper-case by the convention of the configuration.
Sources == {"RIPE", "ARIN"}
\* Values of the source attribute found in object texts, in any case.
TextSources == {"RIPE", "ripe", "ARIN"}
\* Object classes the parser knows, and class names it does not know.
KnownClasses == {"route", "route6"}
UnknownClasses == {"FooBar"}
\* The primary keys of the objects of a class (prefix and origin for a route);
\* a text of an unknown class has none the parser could derive.
PrimaryKeys(object_class) ==
    CASE object_class = "route" -> {"192.0.2.0/24AS65530"}
      [] object_class = "route6" -> {"2001:db8::/48AS65530"}
      [] OTHER -> {None}

\* DatabaseOperation.add_or_update.value and DatabaseOperation.delete.value
add_or_update == "ADD"
delete == "DEL"
DatabaseOperation == {add_or_update, delete}

\* str.upper() and str.lower() on the strings of the model.
upper(s) ==
    CASE s = "ripe" -> "RIPE"
      [] s = "foobar" -> "FOOBAR"
      [] s = "FooBar" -> "FOOBAR"
      [] s = "route" -> "ROUTE"
      [] s = "route6" -> "ROUTE6"
      [] OTHER -> s

lower(s) ==
    CASE s = "RIPE" -> "ripe"
      [] s = "ARIN" -> "arin"
      [] s = "FooBar" -> "foobar"
      [] s = "FOOBAR" -> "foobar"
      [] OTHER -> s

\* object_class_filter: Optional[List[str]].  configured = FALSE is None; a
\* configured filter holds the listed class names (possibly none).
NoFilter == [configured |-> FALSE, classes |-> {}]
FilterOf(classes) == [configured |-> TRUE, classes |-> classes]
Filters == {NoFilter, FilterOf({}), FilterOf({"route"}), FilterOf({"route", "foobar"})}

\* Truth value of an Optional[List[str]] in a Python condition: None and the
\* empty list are both false.
Truthy(object_class_filter) ==
    object_class_filter.configured /\ object_class_filter.classes # {}

\* An object text: surrounding whitespace or not, the class keyword of its
\* first line, its primary key attribute(s), its source attribute (None when
\* the text has none) and the number of errors the parser finds in it.
ObjectTexts ==
    UNION {[padded : BOOLEAN, object_class : {c}, pk : PrimaryKeys(c),
            source : TextSources \cup {None}, nerrors : 0..MaxErrors]
           : c \in KnownClasses}
    \cup
    UNION {[padded : BOOLEAN, object_class : {c}, pk : PrimaryKeys(c),
            source : {None}, nerrors : {0}]
           : c \in UnknownClasses}

\* str.strip()
strip(object_text) == [object_text EXCEPT !.padded = FALSE]

\* The operations NRTMOperation.__init__ can build.
Operations ==
    [source : Sources, operation : DatabaseOperation, serial : 1..MaxSerial,
     object_text : ObjectTexts, object_class_filter : Filters]

\* NRTMOperation.__repr__
repr(op) == <<op.source, op.serial, op.operation>>

(***************************************************************************)
(* The RPSL parser, at its interface                                       *)
(***************************************************************************)
NoObject ==
    [rpsl_object_class |-> None, pk |-> None, parsed_data |-> [source |-> None],
     errors |-> <<>>]

ErrorMessages(n) == [i \in 1..n |-> "error"]

\* rpsl_object_from_text(text, strict_validation, default_source): raises
\* UnknownRPSLObjectClassException for an unknown class keyword; otherwise
\* returns the object, whose source is the text's source attribute or, when
\* the text has none, the default source.
rpsl_object_from_text(text, strict_validation, default_source) ==
    IF text.object_class \in KnownClasses
    THEN [exception |-> None,
          rpsl_object_class |-> None,
          obj |-> [rpsl_object_class |-> text.object_class,
                   pk |-> text.pk,
                   parsed_data |->
                       [source |-> IF text.source # None THEN text.source
                                   ELSE default_source],
                   errors |-> ErrorMessages(text.nerrors)]]
    ELSE [exception |-> "UnknownRPSLObjectClassException",
          rpsl_object_class |-> text.object_class,
          obj |-> NoObject]

(***************************************************************************)
(* The DatabaseHandler, at its interface                                   *)
(***************************************************************************)
Keys == UNION {{<<c, pk>> : pk \in PrimaryKeys(c)} : c \in KnownClasses}

KeyOf(obj) == <<obj.rpsl_object_class, obj.pk>>

\* objects: per key, whether the mirror holds the object, the serial of the
\* last mutation of the key and the object as stored.  mirror_errors: the
\* append-only error log.
EmptyDatabase ==
    [objects |-> [k \in Keys |-> [present |-> FALSE, serial |-> 0, obj |-> NoObject]],
     mirror_errors |-> <<>>]

upsert_rpsl_object(db, obj, serial) ==
    [db EXCEPT !.objects[KeyOf(obj)] =
        [present |-> TRUE, serial |-> serial, obj |-> obj]]

delete_rpsl_object(db, obj, serial) ==
    [db EXCEPT !.objects[KeyOf(obj)] =
        [present |-> FALSE, serial |-> serial, obj |-> NoObject]]

record_mirror_error(db, source, message) ==
    [db EXCEPT !.mirror_errors = Append(@, [source |-> source, message |-> message])]

\* The effect of one call save made on the database handler.
Perform(db, call) ==
    CASE call.method = "upsert_rpsl_object" ->
            upsert_rpsl_object(db, call.obj, call.serial)
      [] call.method = "delete_rpsl_object" ->
            delete_rpsl_object(db, call.obj, call.serial)
      [] call.method = "record_mirror_error" ->
            record_mirror_error(db, call.source, call.message)

RECURSIVE PerformAll(_, _)
PerformAll(db, calls) ==
    IF calls = <<>> THEN db
    ELSE PerformAll(Perform(db, Head(calls)), Tail(calls))

(***************************************************************************)
(* NRTMOperation.save                                                      *)
(***************************************************************************)
\* The collaborators' behaviour during one call of save: "none" is the
\* behaviour their interface defines; "parser" is rpsl_object_from_text
\* raising an exception other than UnknownRPSLObjectClassException; "store"
\* is the database handler call raising.
Faults == {"none", "parser", "store"}

\* Slip: no default source is handed to the parser, whatever the operation.
DefaultSource_Never(op) ==
    None

\* default_source = self.source if self.operation == DatabaseOperation.delete else None
DefaultSource(op) ==
    IF op.operation = delete THEN op.source ELSE None

\* The call of rpsl_object_from_text and what it gives under the fault.
ParserCall(op) ==
    [text |-> strip(op.object_text), strict_validation |-> FALSE,
     default_source |-> DefaultSource(op)]

Parse(op, fault) ==
    IF fault = "parser"
    THEN [exception |-> "Exception", rpsl_object_class |-> None, obj |-> NoObject]
    ELSE rpsl_object_from_text(ParserCall(op).text, ParserCall(op).strict_validation,
                               ParserCall(op).default_source)

\* Slip: a bare except, which catches every exception of the parser.
Caught_Any(exception) ==
    TRUE

\* except UnknownRPSLObjectClassException as exc
Caught(exception) ==
    exception = "UnknownRPSLObjectClassException"

\* Slip: the membership test negated, logging the classes outside the filter.
LogsUnknownClass_NotInFilter(op, rpsl_object_class) ==
    \/ ~Truthy(op.object_class_filter)
    \/ lower(rpsl_object_class) \notin op.object_class_filter.classes

\* if not self.object_class_filter or exc.rpsl_object_class.lower() in self.object_class_filter
LogsUnknownClass(op, rpsl_object_class) ==
    \/ ~Truthy(op.object_class_filter)
    \/ lower(rpsl_object_class) \in op.object_class_filter.classes

\* Slip: the class filter gate left out.
ClassFilteredOut_Never(op, obj) ==
    FALSE

\* Slip: "is not None" in place of the truth value of the list.
ClassFilteredOut_ConfiguredOnly(op, obj) ==
    /\ op.object_class_filter.configured
    /\ lower(obj.rpsl_object_class) \notin op.object_class_filter.classes

\* if self.object_class_filter and obj.rpsl_object_class.lower() not in self.object_class_filter
ClassFilteredOut(op, obj) ==
    /\ Truthy(op.object_class_filter)
    /\ lower(obj.rpsl_object_class) \notin op.object_class_filter.classes

\* Slip: the parser's error messages are not looked at.
HasParsingErrors_Never(obj) ==
    FALSE

\* if obj.messages.errors()
HasParsingErrors(obj) ==
    obj.errors # <<>>

\* Slip: the stripped text, as handed to the parser, goes into the record.
ParsingErrorsMessage_Stripped(op, obj) ==
    [kind |-> "Parsing errors", errors |-> obj.errors,
     object_text |-> strip(op.object_text)]

\* f'Parsing errors: {obj.messages.errors()}, original object text follows:\n{self.object_text}'
ParsingErrorsMessage(op, obj) ==
    [kind |-> "Parsing errors", errors |-> obj.errors, object_text |-> op.object_text]

\* Slip: the object's source compared without upper().
IncorrectSource_NoUpper(op, obj) ==
    /\ obj.parsed_data.source # None
    /\ obj.parsed_data.source # op.source

\* if 'source' in obj.parsed_data and obj.parsed_data['source'].upper() != self.source
IncorrectSource(op, obj) ==
    /\ obj.parsed_data.source # None
    /\ upper(obj.parsed_data.source) # op.source

\* Slip: the two sources of the message swapped.
IncorrectSourceMessage_Swapped(op, obj) ==
    [kind |-> "Incorrect source", stream_source |-> obj.parsed_data.source,
     object_source |-> op.source, serial |-> op.serial,
     operation |-> op.operation, pk |-> obj.pk]

\* f'Incorrect source in NRTM object: stream has source {self.source}, found object with
\*   source {obj.source()} in operation {self.serial}/{self.operation.value}/{obj.pk()}. ...'
IncorrectSourceMessage(op, obj) ==
    [kind |-> "Incorrect source", stream_source |-> op.source,
     object_source |-> obj.parsed_data.source, serial |-> op.serial,
     operation |-> op.operation, pk |-> obj.pk]

RecordMirrorError(op, message) ==
    [method |-> "record_mirror_error", source |-> op.source, message |-> message]

\* Slip: the operation kind is not looked at.
StoreMutation_AlwaysUpsert(op, obj) ==
    [method |-> "upsert_rpsl_object", obj |-> obj, serial |-> op.serial]

\* database_handler.upsert_rpsl_object(obj, self.serial) for add_or_update,
\* database_handler.delete_rpsl_object(obj, self.serial) for delete.
StoreMutation(op, obj) ==
    [method |-> IF op.operation = add_or_update THEN "upsert_rpsl_object"
                ELSE "delete_rpsl_object",
     obj |-> obj, serial |-> op.serial]

Log(level, event, op) == [level |-> level, event |-> event, operation |-> repr(op)]

\* How a call of save ends: by return (raised = None, value the boolean) or by
\* an exception that leaves save (raised names it); the call made on the
\* parser, the calls made on the database handler (the last one failed when
\* raised = "DatabaseError") and the log lines, in order.
Returned(value, fault, parser_call, store_calls, logs) ==
    [called |-> TRUE, fault |-> fault, raised |-> None, value |-> value,
     parser_call |-> parser_call, store_calls |-> store_calls, logs |-> logs]

Raised(exception, fault, parser_call, store_calls, logs) ==
    [called |-> TRUE, fault |-> fault, raised |-> exception, value |-> FALSE,
     parser_call |-> parser_call, store_calls |-> store_calls, logs |-> logs]

\* One call on the database handler between the log lines written before and
\* after it: under the fault "store" the call raises and save is left there.
AfterStoreCall(value, fault, parser_call, store_call, logs_before, logs_after) ==
    IF fault = "store"
    THEN Raised("DatabaseError", fault, parser_call, <<store_call>>, logs_before)
    ELSE Returned(value, fault, parser_call, <<store_call>>, logs_before \o logs_after)

save(op, fault) ==
    LET parsed == Parse(op, fault)
        obj == parsed.obj
    IN  IF parsed.exception # None
        THEN IF Caught(parsed.exception)
             THEN Returned(FALSE, fault, ParserCall(op), <<>>,
                           IF LogsUnknownClass(op, parsed.rpsl_object_class)
                           THEN <<Log("info", "Ignoring NRTM operation", op)>>
                           ELSE <<>>)
             ELSE Raised(parsed.exception, fault, ParserCall(op), <<>>, <<>>)
        ELSE IF ClassFilteredOut(op, obj)
        THEN Returned(FALSE, fault, ParserCall(op), <<>>, <<>>)
        ELSE IF HasParsingErrors(obj)
        THEN AfterStoreCall(FALSE, fault, ParserCall(op),
                            RecordMirrorError(op, ParsingErrorsMessage(op, obj)),
                            <<Log("critical", "Parsing errors occurred", op)>>, <<>>)
        ELSE IF IncorrectSource(op, obj)
        THEN AfterStoreCall(FALSE, fault, ParserCall(op),
                            RecordMirrorError(op, IncorrectSourceMessage(op, obj)),
                            <<>>, <<Log("critical", "Incorrect source", op)>>)
        ELSE AfterStoreCall(TRUE, fault, ParserCall(op), StoreMutation(op, obj),
                            <<>>, <<Log("info", "Completed NRTM operation", op)>>)

(***************************************************************************)
(* State machine                                                           *)
(***************************************************************************)
NotCalled ==
    [called |-> FALSE, fault |-> "none", raised |-> None, value |-> FALSE,
     parser_call |-> [text |-> None, strict_validation |-> FALSE, default_source |-> None],
     store_calls |-> <<>>, logs |-> <<>>]

\* The calls that took effect on the database handler.
Completed(outcome) ==
    IF outcome.raised = "DatabaseError" THEN <<>> ELSE outcome.store_calls

\* A constructed NRTMOperation, not yet saved, and an empty mirror.
Init ==
    /\ self \in Operations
    /\ database_handler = EmptyDatabase
    /\ result = NotCalled

Apply(fault) ==
    /\ ~result.called
    /\ result' = save(self, fault)
    /\ database_handler' = PerformAll(database_handler, Completed(save(self, fault)))
    /\ UNCHANGED self

\* save(database_handler) with the collaborators behaving as their interface defines.
Save == Apply("none")

\* save(database_handler) with a collaborator failing.
SaveFaulty == \E fault \in Faults \ {"none"} : Apply(fault)

\* The stream reader builds the next operation of the same stream: same
\* source, same class filter, a higher serial.
NextOperation ==
    /\ result.called
    /\ result.raised = None
    /\ \E operation \in DatabaseOperation, serial \in (self.serial + 1)..MaxSerial,
          object_text \in ObjectTexts :
          self' = [self EXCEPT !.operation = operation, !.serial = serial,
                               !.object_text = object_text]
    /\ result' = NotCalled
    /\ UNCHANGED database_handler

\* A stream of operations of one source, saved in ascending serial order,
\* with the collaborators behaving as their interface defines.
Next == Save \/ NextOperation
Spec == Init /\ [][Next]_vars

\* The same stream with collaborators that may fail; an exception that leaves
\* save ends the stream.
NextFaulty == Save \/ SaveFaulty \/ NextOperation
SpecFaulty == Init /\ [][NextFaulty]_vars

(***************************************************************************)
(* The operation being saved, as the properties below speak of it          *)
(***************************************************************************)
Text == self.object_text

\* The parser knows the class of the text, so there is a parsed object.
KnownClass == Text.object_class \in KnownClasses

\* The parsed object carries at least one validation error.
ValidationErrors == KnownClass /\ Text.nerrors > 0

\* The source field of the parsed object: the text's, or for a delete without
\* one the default source; None when the object has no source field.
ObjectSource ==
    IF Text.source # None THEN Text.source
    ELSE IF self.operation = delete THEN self.source ELSE None

\* The object's source field disagrees with the stream's, case normalised.
SourceDisagrees ==
    KnownClass /\ ObjectSource # None /\ upper(ObjectSource) # upper(self.source)

\* A filter is in force and the object's class is not one of its classes.
ExcludedByFilter ==
    /\ KnownClass
    /\ self.object_class_filter.configured
    /\ self.object_class_filter.classes # {}
    /\ Text.object_class \notin self.object_class_filter.classes

\* The operation passes all four gates.
PassesAllGates ==
    KnownClass /\ ~ExcludedByFilter /\ ~ValidationErrors /\ ~SourceDisagrees

TextKey == <<Text.object_class, Text.pk>>

IsMutation(call) == call.method \in {"upsert_rpsl_object", "delete_rpsl_object"}
IsErrorRecord(call) == call.method = "record_mirror_error"
Mutations == SelectSeq(result.store_calls, IsMutation)
ErrorRecords == SelectSeq(result.store_calls, IsErrorRecord)
InfoLogs == {i \in 1..Len(result.logs) : result.logs[i].level = "info"}

ReturnedValue(value) == result.raised = None /\ result.value = value

\* The one store mutation of a successful save: the kind's, with the serial.
OneMutationOfKind ==
    /\ Len(Mutations) = 1
    /\ Mutations[1].method =
          (IF self.operation = add_or_update THEN "upsert_rpsl_object"
           ELSE "delete_rpsl_object")
    /\ Mutations[1].serial = self.serial
    /\ KeyOf(Mutations[1].obj) = TextKey

Success == ReturnedValue(TRUE) /\ Len(Mutations) = 1 /\ ErrorRecords = <<>>
LoudRejection == ReturnedValue(FALSE) /\ Mutations = <<>> /\ Len(ErrorRecords) = 1
QuietRejection == ReturnedValue(FALSE) /\ Mutations = <<>> /\ ErrorRecords = <<>>

(***************************************************************************)
(* C1                                                                      *)
(***************************************************************************)
\* C1: an operation whose parsed object has no validation errors, whose source
\* field (if present) is the operation's source and whose class the filter
\* does not exclude is saved: save returns True and makes exactly one call
\* that changes the store, an upsert for add_or_update and a delete for
\* delete, stamped with the operation's serial, and records no error.
C1_CleanOperationIsApplied ==
    (result.called /\ PassesAllGates) =>
        /\ ReturnedValue(TRUE)
        /\ OneMutationOfKind
        /\ ErrorRecords = <<>>
        /\ Len(result.store_calls) = 1
        /\ database_handler.objects[TextKey].serial = self.serial
        /\ database_handler.objects[TextKey].present = (self.operation = add_or_update)

C1_Witness ==
    /\ result.called /\ PassesAllGates
    /\ self.operation = delete
    /\ Text.source = "ripe" /\ self.source = "RIPE"
    /\ self.object_class_filter = FilterOf({"route", "foobar"})
    /\ self.serial = MaxSerial
    /\ result.value

(***************************************************************************)
(* C2                                                                      *)
(***************************************************************************)
ParsingErrorsRecorded ==
    /\ ReturnedValue(FALSE)
    /\ Mutations = <<>>
    /\ Len(ErrorRecords) = 1
    /\ ErrorRecords[1].source = self.source
    /\ ErrorRecords[1].message.kind = "Parsing errors"
    /\ ErrorRecords[1].message.object_text = self.object_text
    /\ database_handler.mirror_errors # <<>>
    /\ database_handler.mirror_errors[Len(database_handler.mirror_errors)] =
          [source |-> self.source, message |-> ErrorRecords[1].message]

\* C2 as stated: whatever the class filter and the object's source field, an
\* object with validation errors makes save return False, write exactly one
\* error record against the operation's source holding the original text, and
\* change nothing in the store.
C2_Original ==
    (result.called /\ ValidationErrors) => ParsingErrorsRecorded

\* C2, amended: the same for the objects whose class the filter does not
\* exclude; an excluded class is dropped before the errors are looked at.
C2_ErrorsRecordedUnlessFiltered ==
    (result.called /\ ValidationErrors /\ ~ExcludedByFilter) => ParsingErrorsRecorded

C2_Witness ==
    /\ result.called /\ ValidationErrors /\ ~ExcludedByFilter
    /\ Text.padded /\ SourceDisagrees
    /\ self.object_class_filter = FilterOf({"route"})
    /\ Len(ErrorRecords) = 1

(***************************************************************************)
(* C3                                                                      *)
(***************************************************************************)
IncorrectSourceRecorded ==
    /\ ReturnedValue(FALSE)
    /\ Mutations = <<>>
    /\ Len(ErrorRecords) = 1
    /\ ErrorRecords[1].source = self.source
    /\ ErrorRecords[1].message.kind = "Incorrect source"
    /\ ErrorRecords[1].message.stream_source = self.source
    /\ ErrorRecords[1].message.object_source = ObjectSource
    /\ ErrorRecords[1].message.serial = self.serial
    /\ ErrorRecords[1].message.operation = self.operation
    /\ ErrorRecords[1].message.pk = Text.pk

\* C3 as stated: every object whose source field disagrees with the
\* operation's source makes save return False, change nothing in the store and
\* write exactly one error record naming the expected source, the found
\* source, the serial, the operation kind and the primary key.
C3_Original ==
    (result.called /\ SourceDisagrees) => IncorrectSourceRecorded

\* C3, amended: the same for the objects that reach the source gate, those
\* whose class the filter does not exclude and that carry no validation error.
C3_IncorrectSourceRecordedAtItsGate ==
    (result.called /\ SourceDisagrees /\ ~ExcludedByFilter /\ ~ValidationErrors)
        => IncorrectSourceRecorded

C3_Witness ==
    /\ result.called /\ SourceDisagrees /\ ~ExcludedByFilter /\ ~ValidationErrors
    /\ self.source = "RIPE" /\ Text.source = "ARIN"
    /\ self.operation = delete
    /\ Len(ErrorRecords) = 1

(***************************************************************************)
(* C4                                                                      *)
(***************************************************************************)
\* C4: every save ends in one of three outcomes, each with its own side
\* effects: success (True, one store mutation, no error record) for an
\* operation that passes all gates; loud rejection (False, no mutation, one
\* error record, also when the object has validation errors and a foreign
\* source at once) for validation errors or a source mismatch; quiet rejection
\* (False, no mutation, no error record) for an unknown class or a class the
\* filter excludes.  No save writes to the store more than once.
C4_ThreeOutcomes ==
    result.called =>
        /\ \/ Success /\ PassesAllGates
           \/ LoudRejection /\ (ValidationErrors \/ SourceDisagrees)
           \/ QuietRejection /\ (~KnownClass \/ ExcludedByFilter)
        /\ (~ExcludedByFilter /\ ValidationErrors /\ SourceDisagrees) => LoudRejection
        /\ Len(result.store_calls) <= 1

C4_Witness ==
    /\ result.called
    /\ ~ExcludedByFilter /\ ValidationErrors /\ SourceDisagrees
    /\ LoudRejection

(***************************************************************************)
(* C5                                                                      *)
(***************************************************************************)
UnknownClassDropped ==
    ReturnedValue(FALSE) /\ result.store_calls = <<>>

UnknownClassLogged ==
    \E i \in InfoLogs : result.logs[i].event = "Ignoring NRTM operation"

\* C5 as stated: an unknown object class makes save return False without an
\* error record, and the informational log is written exactly when no filter
\* is configured or the unknown class is not in the filter.
C5_Original ==
    (result.called /\ ~KnownClass) =>
        /\ UnknownClassDropped
        /\ UnknownClassLogged <=>
              \/ ~self.object_class_filter.configured
              \/ lower(Text.object_class) \notin self.object_class_filter.classes

\* C5, amended: an unknown object class makes save return False without an
\* error record, and the informational log is written exactly when no filter
\* is configured, the filter is empty, or the unknown class is in the filter:
\* the class is logged when the filter would not have dropped it.
C5_UnknownClassLoggedUnlessFilteredOut ==
    (result.called /\ ~KnownClass) =>
        /\ UnknownClassDropped
        /\ UnknownClassLogged <=>
              \/ ~self.object_class_filter.configured
              \/ self.object_class_filter.classes = {}
              \/ lower(Text.object_class) \in self.object_class_filter.classes

C5_Witness ==
    /\ result.called /\ ~KnownClass
    /\ self.object_class_filter = FilterOf({"route", "foobar"})
    /\ UnknownClassLogged

\* The other side of C5: a filter without the unknown class, and no log.
C5_WitnessSilent ==
    /\ result.called /\ ~KnownClass
    /\ self.object_class_filter = FilterOf({"route"})
    /\ result.logs = <<>>

(***************************************************************************)
(* C6                                                                      *)
(***************************************************************************)
DeleteWithoutSource ==
    /\ self.operation = delete
    /\ Text.source = None
    /\ KnownClass /\ ~ValidationErrors /\ ~ExcludedByFilter

\* C6: the parser is handed the operation's source as default source for a
\* delete and no default source for an add_or_update; so a delete whose text
\* has no source field, with valid primary key attributes, no validation
\* error and a class the filter does not exclude, passes the source gate:
\* save returns True and makes exactly one delete with the operation's serial.
C6_DefaultSourceForDelete ==
    result.called =>
        /\ result.parser_call.default_source =
              (IF self.operation = delete THEN self.source ELSE None)
        /\ DeleteWithoutSource =>
              /\ ReturnedValue(TRUE)
              /\ OneMutationOfKind
              /\ Mutations[1].method = "delete_rpsl_object"
              /\ Mutations[1].obj.parsed_data.source = self.source
              /\ ErrorRecords = <<>>

C6_Witness ==
    /\ result.called /\ DeleteWithoutSource
    /\ self.source = "RIPE"
    /\ result.parser_call.default_source = "RIPE"
    /\ result.value
    /\ Len(Mutations) = 1

(***************************************************************************)
(* C7                                                                      *)
(***************************************************************************)
\* A collaborator failed during the call: the parser, with an exception other
\* than the unknown class one, or the database handler in the one call that
\* save makes on it for an object that gets past the class filter.
CollaboratorFailed ==
    \/ result.fault = "parser"
    \/ result.fault = "store" /\ KnownClass /\ ~ExcludedByFilter

\* C7 as stated: no exception leaves save, whatever the parser and the store
\* do, a failing store call and a parser failure other than the unknown class
\* included; save always ends by returning a boolean.
C7_Original ==
    result.called => result.raised = None

\* C7, amended: save catches the unknown class exception of the parser and
\* nothing else.  It returns a boolean exactly when the parser returns or
\* raises the unknown class exception and the call made on the database
\* handler, if any, returns; any other exception of the parser or of the
\* database handler leaves save, with no later call made.
C7_OnlyUnknownClassIsCaught ==
    result.called =>
        /\ (result.raised # None) <=> CollaboratorFailed
        /\ result.fault = "parser" =>
              result.raised = "Exception" /\ result.store_calls = <<>>
        /\ (result.fault = "store" /\ CollaboratorFailed) =>
              /\ result.raised = "DatabaseError"
              /\ Len(result.store_calls) = 1
              /\ ~(\E i \in InfoLogs : result.logs[i].event = "Completed NRTM operation")
        /\ ~KnownClass /\ result.fault # "parser" => ReturnedValue(FALSE)

C7_Witness ==
    /\ result.called
    /\ result.fault = "store" /\ PassesAllGates
    /\ result.raised = "DatabaseError"
    /\ ~database_handler.objects[TextKey].present

\* The exception that is caught, with a store that would fail if called.
C7_WitnessCaught ==
    /\ result.called
    /\ result.fault = "store" /\ ~KnownClass
    /\ ReturnedValue(FALSE)

(***************************************************************************)
(* C8                                                                      *)
(***************************************************************************)
\* C8: after any sequence of saves for one source from an empty mirror, every
\* object the mirror holds has no validation error, a known class that the
\* class filter does not exclude and, if it has a source field, the source of
\* the stream; and every upsert or delete the store receives comes from an
\* operation that passed all four gates.
C8_MirrorHoldsOnlyAcceptedObjects ==
    /\ \A k \in Keys :
          database_handler.objects[k].present =>
              LET stored == database_handler.objects[k].obj
              IN  /\ stored.errors = <<>>
                  /\ stored.rpsl_object_class \in KnownClasses
                  /\ KeyOf(stored) = k
                  /\ \/ stored.parsed_data.source = None
                     \/ upper(stored.parsed_data.source) = self.source
                  /\ \/ ~self.object_class_filter.configured
                     \/ self.object_class_filter.classes = {}
                     \/ stored.rpsl_object_class \in self.object_class_filter.classes
    /\ (result.called /\ Mutations # <<>>) => PassesAllGates
    /\ (result.called /\ ~PassesAllGates) => result.store_calls = ErrorRecords

\* A rejected upsert for a key the mirror holds from an earlier serial.
C8_Witness ==
    /\ result.called
    /\ self.operation = add_or_update
    /\ ValidationErrors /\ SourceDisagrees
    /\ ~ExcludedByFilter
    /\ database_handler.objects[TextKey].present
    /\ database_handler.objects[TextKey].serial < self.serial

(***************************************************************************)
(* C9                                                                      *)
(***************************************************************************)
\* An error record of the log is about the key.
RecordIsAbout(record, k) ==
    \/ /\ record.message.kind = "Parsing errors"
       /\ <<record.message.object_text.object_class,
            record.message.object_text.pk>> = k
    \/ /\ record.message.kind = "Incorrect source"
       /\ record.message.pk = k[2]

\* An earlier operation of the stream for the key was rejected with a record.
RejectedBefore(k) ==
    \E i \in 1..Len(database_handler.mirror_errors) :
        RecordIsAbout(database_handler.mirror_errors[i], k)

\* C9: in a stream saved in ascending serial order, a save that rejects the
\* operation for validation errors or a foreign source leaves the objects of
\* the mirror as they were and appends one error record; save keeps nothing
\* from one call to the next, so a later operation for a key that was rejected
\* before, which parses without error and has the stream's source, is saved
\* (True) and the mirror then has the key as that serial wrote it: the object
\* with the serial after an upsert, no object and the serial after a delete.
C9_SelfHealing ==
    [][(~result.called /\ result'.called) =>
          /\ self' = self
          /\ (KnownClass /\ ~ExcludedByFilter /\ (ValidationErrors \/ SourceDisagrees)) =>
                /\ ~result'.value
                /\ database_handler'.objects = database_handler.objects
                /\ Len(database_handler'.mirror_errors) =
                      Len(database_handler.mirror_errors) + 1
                /\ SubSeq(database_handler'.mirror_errors, 1,
                          Len(database_handler.mirror_errors)) =
                      database_handler.mirror_errors
          /\ (KnownClass /\ ~ValidationErrors /\ ~SourceDisagrees
                /\ RejectedBefore(TextKey)) =>
                /\ result'.raised = None /\ result'.value
                /\ database_handler'.objects[TextKey].serial = self.serial
                /\ database_handler'.objects[TextKey].present =
                      (self.operation = add_or_update)
                /\ self.operation = add_or_update =>
                      /\ database_handler'.objects[TextKey].obj.pk = Text.pk
                      /\ database_handler'.objects[TextKey].obj.parsed_data.source
                            = ObjectSource
                /\ \A k \in Keys \ {TextKey} :
                      database_handler'.objects[k] = database_handler.objects[k]
                /\ database_handler'.mirror_errors = database_handler.mirror_errors
      ]_vars

\* The corrected operation has been saved after a rejected one for its key.
C9_Witness ==
    /\ result.called /\ result.value
    /\ self.operation = add_or_update
    /\ RejectedBefore(TextKey)
    /\ self.object_class_filter = FilterOf({"route"})
    /\ database_handler.objects[TextKey].present
    /\ database_handler.objects[TextKey].serial = self.serial

(***************************************************************************)
(* C10                                                                     *)
(***************************************************************************)
\* C10: a class filter that is configured but empty behaves as no filter: the
\* save of an operation with object_class_filter = [] returns the same value,
\* makes the same calls on the store and writes the same log lines as the save
\* of the same operation with object_class_filter = None.
C10_EmptyFilterIsNoFilter ==
    (result.called /\ self.object_class_filter = FilterOf({})) =>
        /\ result = save([self EXCEPT !.object_class_filter = NoFilter], result.fault)
        /\ ~ExcludedByFilter

C10_Witness ==
    /\ result.called
    /\ self.object_class_filter = FilterOf({})
    /\ Text.object_class = "route6"
    /\ ReturnedValue(TRUE)
    /\ Len(Mutations) = 1

====
